---- MODULE Spec2Model ----
(***************************************************************************)
(* A model of dive_sailthru_client/client.py (Python 2): the default-merge *)
(* merge_results, the campaign classifier (__infer_dive_email_type and      *)
(* __infer_dive_brand), the paginated query get_campaigns_in_range and the  *)
(* safe user lookup of DiveSailthruClientSafe.                             *)
(*                                                                         *)
(* Text is a sequence of one-character strings, so that startswith,        *)
(* endswith, lower, substring search and the regular expressions are       *)
(* computed character by character.  A Python dict is a function whose     *)
(* domain is the set of keys that are present.                             *)
(***************************************************************************)
EXTENDS Integers, Sequences, FiniteSets, TLC

VARIABLES
    campaign,          \* classifier: the campaign dict handed to the two functions
    dive_email_type,   \* classifier: value returned by __infer_dive_email_type
    dive_brand,        \* classifier: value returned by __infer_dive_brand
    start_date,        \* range query: argument, in ticks
    end_date,          \* range query: argument, in ticks
    list_name,         \* range query: argument, a text or None
    page_start_date,   \* range query: loop variable
    campaigns,         \* range query: the list being built
    calls,             \* range query: api_get calls made so far, with their responses
    pc,                \* range query: "loop", "returned" or "raised"
    exception,         \* range query: the exception that left the call, if any
    returned,          \* range query: the returned list, once pc = "returned"
    result_json,       \* normalizer: raw mapping (a response's json)
    defaults,          \* normalizer: default mapping
    outcome            \* normalizer: result of the operation applied

vars == <<campaign, dive_email_type, dive_brand, start_date, end_date,
          list_name, page_start_date, campaigns, calls, pc, exception, returned,
          result_json, defaults, outcome>>

classifierVars == <<campaign, dive_email_type, dive_brand>>
rangeVars == <<start_date, end_date, list_name, page_start_date, campaigns, calls, pc,
               exception, returned>>
normalizerVars == <<result_json, defaults, outcome>>

-----------------------------------------------------------------------------
(* Python values and string methods                                        *)

\* Python's None where a text is expected: not a sequence of characters.
None == <<"<None>">>

\* A variable that has not been assigned yet.
Unset == <<"<unset>">>

\* The outcome of a call: a returned value, or the exception raised with its
\* text; NoOutcome while the call has neither returned nor raised.
Returns(json) == [status |-> "ok", json |-> json, message |-> ""]
Raises(type, message) == [status |-> type, json |-> <<>>, message |-> message]
NoOutcome == [status |-> "unset", json |-> <<>>, message |-> ""]

UpperCase == <<"A", "B", "C", "D", "E", "F", "G", "H", "I", "J", "K", "L", "M",
               "N", "O", "P", "Q", "R", "S", "T", "U", "V", "W", "X", "Y", "Z">>

LowerCase == <<"a", "b", "c", "d", "e", "f", "g", "h", "i", "j", "k", "l", "m",
               "n", "o", "p", "q", "r", "s", "t", "u", "v", "w", "x", "y", "z">>

Letters == {UpperCase[i] : i \in 1..26} \cup {LowerCase[i] : i \in 1..26}

\* str.lower(), one character
LowerChar(c) ==
    IF \E i \in 1..26 : UpperCase[i] = c
    THEN LowerCase[CHOOSE i \in 1..26 : UpperCase[i] = c]
    ELSE c

\* str.lower()
Lower(s) == [i \in 1..Len(s) |-> LowerChar(s[i])]

\* str.startswith(prefix)
StartsWith(s, prefix) ==
    /\ Len(prefix) <= Len(s)
    /\ \A i \in 1..Len(prefix) : s[i] = prefix[i]

\* str.endswith(suffix)
EndsWith(s, suffix) ==
    /\ Len(suffix) <= Len(s)
    /\ \A i \in 1..Len(suffix) : s[Len(s) - Len(suffix) + i] = suffix[i]

\* the operator "sub in s" on strings
Contains(s, sub) ==
    \E k \in 0..(Len(s) - Len(sub)) :
        \A i \in 1..Len(sub) : s[k + i] = sub[i]

\* unicode.encode('utf-8', errors='replace'), one character: an ASCII
\* character is one byte; the character e-acute, written "U+00E9" here, is
\* the two bytes C3 A9.
EncodeChar(c) == IF c = "U+00E9" THEN <<"\\xc3", "\\xa9">> ELSE <<c>>

\* unicode.encode('utf-8', errors='replace')
RECURSIVE EncodeUtf8(_)
EncodeUtf8(s) ==
    IF s = <<>> THEN <<>> ELSE EncodeChar(Head(s)) \o EncodeUtf8(Tail(s))

\* dict.get(key, default)
Get(d, key, default) == IF key \in DOMAIN d THEN d[key] ELSE default

\* re.sub(pattern + '$', '', s) for a pattern that is a sequence of character
\* classes: the match, if any, is the last Len(classes) characters.
ReSubAtEnd(classes, s) ==
    IF /\ Len(classes) <= Len(s)
       /\ \A i \in 1..Len(classes) : s[Len(s) - Len(classes) + i] \in classes[i]
    THEN SubSeq(s, 1, Len(s) - Len(classes))
    ELSE s

-----------------------------------------------------------------------------
(* class DiveEmailTypes                                                    *)

Blast == "blast"
WelcomeSeries == "welcome"
Newsletter == "newsletter"
Weekender == "weekender"
Unknown == "unknown"
BreakingNews == "breaking"

DiveEmailTypes ==
    {Blast, WelcomeSeries, Newsletter, Weekender, Unknown, BreakingNews}

-----------------------------------------------------------------------------
(* String literals of the classifier                                       *)

S_dash_blast_dash == <<"-", "b", "l", "a", "s", "t", "-">>
S_Weekender == <<"W", "e", "e", "k", "e", "n", "d", "e", "r">>
S_weekender == <<"w", "e", "e", "k", "e", "n", "d", "e", "r">>
S_Newsletter_Weekly_Roundup ==
    <<"N", "e", "w", "s", "l", "e", "t", "t", "e", "r", " ", "W", "e", "e",
      "k", "l", "y", " ", "R", "o", "u", "n", "d", "u", "p">>
S_Issue == <<"I", "s", "s", "u", "e", ":", " ">>
S_blast_list == <<"b", "l", "a", "s", "t", " ", "l", "i", "s", "t">>
S_BREAKING == <<"B", "R", "E", "A", "K", "I", "N", "G">>
S_Dive == <<" ", "D", "i", "v", "e">>
S_Dive_colon == <<" ", "D", "i", "v", "e", ":", " ">>

\* r' [Bb]last [Ll]ist$' without the anchor
RE_blast_list ==
    <<{" "}, {"B", "b"}, {"l"}, {"a"}, {"s"}, {"t"},
      {" "}, {"L", "l"}, {"i"}, {"s"}, {"t"}>>

\* r' [Ww]eekender$' without the anchor
RE_weekender ==
    <<{" "}, {"W", "w"}, {"e"}, {"e"}, {"k"}, {"e"}, {"n"}, {"d"}, {"e"}, {"r"}>>

\* re.match(r'[A-Za-z]+ Dive: [a-zA-Z]+', s): one or more letters from the
\* start, the text " Dive: ", then at least one letter.
MatchWordDiveWord(s) ==
    \E n \in 1..Len(s) :
        /\ \A i \in 1..n : s[i] \in Letters
        /\ Len(s) >= n + Len(S_Dive_colon) + 1
        /\ \A i \in 1..Len(S_Dive_colon) : s[n + i] = S_Dive_colon[i]
        /\ s[n + Len(S_Dive_colon) + 1] \in Letters

-----------------------------------------------------------------------------
(* DiveSailthruClient.__infer_dive_email_type                               *)

\* _infer_dive_email_type with the "blast list" test made case-sensitive
Mutant_type_case_sensitive(c) ==
    LET labels == Get(c, "labels", {})
        name == Get(c, "name", <<>>)
        list == Get(c, "list", <<>>)
        subject == EncodeUtf8(Get(c, "subject", <<>>))
    IN  IF "Blast" \in labels \/ Contains(name, S_dash_blast_dash)
        THEN Blast
        ELSE IF "Welcome Series" \in labels
        THEN WelcomeSeries
        ELSE IF \/ EndsWith(list, S_Weekender)
                \/ StartsWith(name, S_Newsletter_Weekly_Roundup)
        THEN Weekender
        ELSE IF "newsletter" \in labels \/ StartsWith(name, S_Issue)
        THEN Newsletter
        ELSE IF EndsWith(list, S_blast_list)
        THEN Blast
        ELSE IF StartsWith(subject, S_BREAKING)
        THEN BreakingNews
        ELSE Unknown

\* _infer_dive_email_type with the Welcome Series rule tried first
Mutant_type_welcome_first(c) ==
    LET labels == Get(c, "labels", {})
        name == Get(c, "name", <<>>)
        list == Get(c, "list", <<>>)
        subject == EncodeUtf8(Get(c, "subject", <<>>))
    IN  IF "Welcome Series" \in labels
        THEN WelcomeSeries
        ELSE IF "Blast" \in labels \/ Contains(name, S_dash_blast_dash)
        THEN Blast
        ELSE IF \/ EndsWith(list, S_Weekender)
                \/ StartsWith(name, S_Newsletter_Weekly_Roundup)
        THEN Weekender
        ELSE IF "newsletter" \in labels \/ StartsWith(name, S_Issue)
        THEN Newsletter
        ELSE IF EndsWith(Lower(list), S_blast_list)
        THEN Blast
        ELSE IF StartsWith(subject, S_BREAKING)
        THEN BreakingNews
        ELSE Unknown

_infer_dive_email_type(c) ==
    LET labels == Get(c, "labels", {})
        name == Get(c, "name", <<>>)
        list == Get(c, "list", <<>>)
        subject == EncodeUtf8(Get(c, "subject", <<>>))
    IN  IF "Blast" \in labels \/ Contains(name, S_dash_blast_dash)
        THEN Blast
        ELSE IF "Welcome Series" \in labels
        THEN WelcomeSeries
        ELSE IF \/ EndsWith(list, S_Weekender)
                \/ StartsWith(name, S_Newsletter_Weekly_Roundup)
        THEN Weekender
        ELSE IF "newsletter" \in labels \/ StartsWith(name, S_Issue)
        THEN Newsletter
        ELSE IF EndsWith(Lower(list), S_blast_list)
        THEN Blast
        ELSE IF StartsWith(subject, S_BREAKING)
        THEN BreakingNews
        ELSE Unknown

(* DiveSailthruClient.__infer_dive_brand                                    *)

_infer_dive_brand(c) ==
    LET list == Get(c, "list", <<>>)
    IN  IF EndsWith(Lower(list), S_blast_list)
        THEN ReSubAtEnd(RE_blast_list, list)
        ELSE IF EndsWith(Lower(list), S_weekender)
        THEN ReSubAtEnd(RE_weekender, list)
        ELSE IF EndsWith(list, S_Dive) \/ MatchWordDiveWord(list)
        THEN list
        ELSE None

-----------------------------------------------------------------------------
(* Classifier inputs: campaign dicts in which every field may be missing   *)

Fields == {"labels", "name", "list", "subject"}

LabelSets ==
    SUBSET {"Blast", "Welcome Series", "newsletter"} \cup {{"Sponsored"}}

Names ==
    { <<"Q", "-", "b", "l", "a", "s", "t", "-", "U", "D">>,
      <<"Q", "-", "B", "l", "a", "s", "t", "-", "U", "D">>,
      S_Newsletter_Weekly_Roundup \o <<" ", "7">>,
      <<"I", "s", "s", "u", "e", ":", " ", "5">>,
      <<"I", "s", "s", "u", "e", ":", "5">>,
      <<"P", "r", "o", "m", "o">>,
      <<>> }

ListPrefixes ==
    { <<"F", "O", "O">>,
      <<"U", "t", "i", "l", "i", "t", "y", " ", "D", "i", "v", "e", ":", " ",
        "S", "o", "l", "a", "r">> }

BlastWords ==
    { <<"b", "l", "a", "s", "t">>, <<"B", "l", "a", "s", "t">>,
      <<"B", "L", "A", "S", "T">> }

ListWords ==
    { <<"l", "i", "s", "t">>, <<"L", "i", "s", "t">>, <<"L", "I", "S", "T">> }

\* list names that end, in some capitalization, with "blast list"
BlastListNames ==
    { p \o sep \o b \o <<" ">> \o l :
        p \in ListPrefixes, sep \in {<<>>, <<" ">>}, b \in BlastWords,
        l \in ListWords }

OtherListNames ==
    { <<"F", "o", "o", " ", "W", "e", "e", "k", "e", "n", "d", "e", "r">>,
      <<"F", "o", "o", " ", "w", "e", "e", "k", "e", "n", "d", "e", "r">>,
      <<"F", "o", "o", " ", "W", "E", "E", "K", "E", "N", "D", "E", "R">>,
      <<"H", "e", "a", "l", "t", "h", "c", "a", "r", "e", " ", "D", "i", "v", "e">>,
      <<"F", "o", "o", " ", "d", "i", "v", "e">>,
      <<"U", "t", "i", "l", "i", "t", "y", " ", "D", "i", "v", "e", ":", " ",
        "S", "o", "l", "a", "r">>,
      <<"D", "i", "v", "e", ":", " ", "S", "o", "l", "a", "r">>,
      <<"F", "o", "o">>,
      <<"b", "l", "a", "s", "t", " ", "l", "i", "s", "t">>,
      <<"b", "l", "a", "s", "t", " ", "l", "i", "s", "t", "s">>,
      <<>> }

ListNames == BlastListNames \cup OtherListNames

Subjects ==
    { <<"B", "R", "E", "A", "K", "I", "N", "G", ":", " ", "x">>,
      <<"B", "r", "e", "a", "k", "i", "n", "g", " ", "x">>,
      <<"U+00E9", "t", "e">> }

\* a dict with the key absent, or present with one of the values
Optional(key, values) == {<<>>} \cup {[k \in {key} |-> v] : v \in values}

CampaignInputs ==
    { a @@ b @@ c @@ d :
        a \in Optional("labels", LabelSets), b \in Optional("name", Names),
        c \in Optional("list", ListNames), d \in Optional("subject", Subjects) }

-----------------------------------------------------------------------------
(* The classifier applied to one campaign                                  *)

RangeIdle ==
    /\ start_date = 0
    /\ end_date = 0
    /\ list_name = None
    /\ page_start_date = 0
    /\ campaigns = <<>>
    /\ calls = <<>>
    /\ pc = "idle"
    /\ exception = NoOutcome
    /\ returned = <<>>

NormalizerIdle ==
    /\ result_json = <<>>
    /\ defaults = <<>>
    /\ outcome = NoOutcome

ClassifierIdle ==
    /\ campaign = <<>>
    /\ dive_email_type = "<unset>"
    /\ dive_brand = Unset

ClassifierInit ==
    /\ campaign \in CampaignInputs
    /\ dive_email_type = "<unset>"
    /\ dive_brand = Unset
    /\ RangeIdle
    /\ NormalizerIdle

InferDiveEmailType ==
    /\ dive_email_type = "<unset>"
    /\ dive_email_type' = _infer_dive_email_type(campaign)
    /\ UNCHANGED <<campaign, dive_brand, rangeVars, normalizerVars>>

InferDiveBrand ==
    /\ dive_brand = Unset
    /\ dive_brand' = _infer_dive_brand(campaign)
    /\ UNCHANGED <<campaign, dive_email_type, rangeVars, normalizerVars>>

ClassifierNext == InferDiveEmailType \/ InferDiveBrand

ClassifierSpec == ClassifierInit /\ [][ClassifierNext]_vars

-----------------------------------------------------------------------------
(* JSON values of the normalizer.  A value is a record with a tag and, for *)
(* a dict, the function from its keys to their values; a scalar is named   *)
(* by its tag: None, the integers 0 and 5, the empty string.               *)

Scalar(t) == [tag |-> t, sub |-> <<>>]
Dict(d) == [tag |-> "dict", sub |-> d]

NoneValue == Scalar("None")
EmptyDict == Dict(<<>>)

\* Python truth value: None, 0, '' and {} are false
Truthy(v) ==
    IF v.tag = "dict" THEN DOMAIN v.sub # {} ELSE v.tag \notin {"None", "0", "''"}

RECURSIVE merge_results(_, _)

\* merge_results with "result_json.get(k) or v" for a scalar default
Mutant_merge_falsy_to_default(R, D) ==
    IF R.tag # "dict"
    THEN Raises("AttributeError", "object has no attribute 'get'")
    ELSE
    LET new_val(k) ==
            LET v == D.sub[k]
            IN  IF v.tag = "dict"
                THEN LET old_val == Get(R.sub, k, EmptyDict)
                     IN  IF Truthy(old_val) /\ Truthy(v)
                         THEN merge_results(old_val, v)
                         ELSE IF Truthy(old_val)
                         THEN Returns(old_val)
                         ELSE Returns(v)
                ELSE IF k \in DOMAIN R.sub /\ Truthy(R.sub[k])
                     THEN Returns(R.sub[k])
                     ELSE Returns(v)
    IN  IF \E k \in DOMAIN D.sub : new_val(k).status # "ok"
        THEN CHOOSE o \in {new_val(k) : k \in DOMAIN D.sub} : o.status # "ok"
        ELSE Returns(Dict([k \in DOMAIN D.sub \cup DOMAIN R.sub |->
                            IF k \in DOMAIN D.sub
                            THEN new_val(k).json
                            ELSE R.sub[k]]))

\* merge_results with the raw value kept when it is falsy
Mutant_merge_falsy_as_is(R, D) ==
    IF R.tag # "dict"
    THEN Raises("AttributeError", "object has no attribute 'get'")
    ELSE
    LET new_val(k) ==
            LET v == D.sub[k]
            IN  IF v.tag = "dict"
                THEN LET old_val == Get(R.sub, k, EmptyDict)
                     IN  IF Truthy(old_val) /\ Truthy(v)
                         THEN merge_results(old_val, v)
                         ELSE Returns(old_val)
                ELSE Returns(Get(R.sub, k, v))
    IN  IF \E k \in DOMAIN D.sub : new_val(k).status # "ok"
        THEN CHOOSE o \in {new_val(k) : k \in DOMAIN D.sub} : o.status # "ok"
        ELSE Returns(Dict([k \in DOMAIN D.sub \cup DOMAIN R.sub |->
                            IF k \in DOMAIN D.sub
                            THEN new_val(k).json
                            ELSE R.sub[k]]))

\* merge_results(result_json, defaults), on values: R is result_json, D is
\* defaults.  A R that is not a dict has no .get and no .items.
merge_results(R, D) ==
    IF R.tag # "dict"
    THEN Raises("AttributeError", "object has no attribute 'get'")
    ELSE
    LET new_val(k) ==
            LET v == D.sub[k]
            IN  IF v.tag = "dict"
                THEN LET old_val == Get(R.sub, k, EmptyDict)
                     IN  IF Truthy(old_val) /\ Truthy(v)
                         THEN merge_results(old_val, v)
                         ELSE IF Truthy(old_val)
                         THEN Returns(old_val)
                         ELSE Returns(v)
                ELSE Returns(Get(R.sub, k, v))
    IN  IF \E k \in DOMAIN D.sub : new_val(k).status # "ok"
        THEN CHOOSE o \in {new_val(k) : k \in DOMAIN D.sub} : o.status # "ok"
        ELSE Returns(Dict([k \in DOMAIN D.sub \cup DOMAIN R.sub |->
                            IF k \in DOMAIN D.sub
                            THEN new_val(k).json
                            ELSE R.sub[k]]))

\* DiveSailthruClientSafe._user_dict
_user_dict ==
    Dict([k \in {"keys", "activity", "vars", "lists", "engagement",
                 "optout_email"} |->
            CASE k = "keys" ->
                   Dict([j \in {"sid", "cookie", "email"} |-> Scalar("''")])
              [] k \in {"vars", "lists"} -> EmptyDict
              [] OTHER -> Scalar("''")])

\* raise_exception_if_error's and _create_response's "%s (%s)" % (message, code)
ErrorText(error) == error.message \o " (" \o ToString(error.code) \o ")"

\* DiveSailthruClientSafe._create_response
_create_response(base_response, D) ==
    IF ~base_response.is_ok
    THEN Raises("SailthruApiError", ErrorText(base_response.error))
    ELSE IF ~Truthy(base_response.json)
    THEN Returns(D)
    ELSE merge_results(base_response.json, D)

-----------------------------------------------------------------------------
(* Normalizer inputs                                                       *)

Scalars == {Scalar("None"), Scalar("0"), Scalar("5"), Scalar("''")}

\* every dict with keys among K and values among V
DictsOver(K, V) == {Dict(f) : f \in UNION {[S -> V] : S \in SUBSET K}}

InnerDicts == DictsOver({"sid"}, Scalars \cup {EmptyDict})

Mappings == DictsOver({"keys", "count"}, Scalars \cup InnerDicts)

\* bodies the vendor can answer a user lookup with
UserJsons ==
    { Dict(a @@ b @@ c) :
        a \in Optional("keys", {NoneValue, EmptyDict,
                                Dict([j \in {"sid"} |-> Scalar("5")])}),
        b \in Optional("vars", {NoneValue, EmptyDict,
                                Dict([j \in {"sid"} |-> Scalar("5")])}),
        c \in Optional("activity", {NoneValue, Scalar("''"), Scalar("5")}) }

\* errors the vendor can answer with
ApiErrors ==
    { [message |-> "Invalid API key", code |-> 9],
      [message |-> "Rate limit exceeded", code |-> 43] }

NormalizerInit ==
    /\ result_json \in Mappings \cup UserJsons
    /\ defaults \in Mappings \cup {_user_dict}
    /\ outcome = NoOutcome
    /\ ClassifierIdle
    /\ RangeIdle

\* a call merge_results(result_json, defaults)
MergeResults ==
    /\ outcome = NoOutcome
    /\ outcome' = merge_results(result_json, defaults)
    /\ UNCHANGED <<result_json, defaults, classifierVars, rangeVars>>

\* DiveSailthruClientSafe.get_user: the vendor answers with result_json, or
\* with an error
GetUser ==
    /\ outcome = NoOutcome
    /\ defaults = _user_dict
    /\ \E is_ok \in BOOLEAN, error \in ApiErrors :
          outcome' = _create_response(
                       [is_ok |-> is_ok, error |-> error, json |-> result_json],
                       defaults)
    /\ UNCHANGED <<result_json, defaults, classifierVars, rangeVars>>

NormalizerNext == MergeResults \/ GetUser

NormalizerSpec == NormalizerInit /\ [][NormalizerNext]_vars

-----------------------------------------------------------------------------
(* DiveSailthruClient.get_campaigns_in_range.  A date or datetime is a     *)
(* number of ticks; strftime("%Y-%m-%d") keeps the day only and the day    *)
(* number stands for its text.                                             *)

TicksPerDay == 2

PAGE_SIZE_IN_DAYS == 30

\* datetime.timedelta(days=n)
timedelta(days) == days * TicksPerDay

\* date.strftime("%Y-%m-%d")
strftime(t) == t \div TicksPerDay

\* page_end_date without the clipping to end_date
Mutant_page_end_unclipped(page_start, end) ==
    page_start + timedelta(PAGE_SIZE_IN_DAYS)

\* page_end_date as the loop body computes it
page_end_date(page_start, end) ==
    IF page_start + timedelta(PAGE_SIZE_IN_DAYS) > end
    THEN end
    ELSE page_start + timedelta(PAGE_SIZE_IN_DAYS)

\* the api_params of one page
api_params(page_start, page_end, list) ==
    LET dates == [k \in {"status", "start_date", "end_date"} |->
                    CASE k = "status" -> "sent"
                      [] k = "start_date" -> strftime(page_start)
                      [] k = "end_date" -> strftime(page_end)]
    IN  IF list # None THEN dates @@ [k \in {"list"} |-> list] ELSE dates

\* raise_exception_if_error that never raises
Mutant_error_ignored(response) == NoOutcome

\* DiveSailthruClient.raise_exception_if_error: the exception it raises, or
\* NoOutcome when it returns
raise_exception_if_error(response) ==
    IF ~response.is_ok
    THEN Raises("SailthruApiError", ErrorText(response.error))
    ELSE NoOutcome

\* a page taken in the vendor's order
Mutant_not_reversed(s) == s

\* reversed(list)
reversed(s) == [i \in 1..Len(s) |-> s[Len(s) + 1 - i]]

\* the three assignments to c in the loop over a page; c has a subject
enriched(c) ==
    [k \in DOMAIN c \cup {"dive_email_type", "dive_brand"} |->
        CASE k = "dive_email_type" -> _infer_dive_email_type(c)
          [] k = "dive_brand" -> _infer_dive_brand(c)
          [] k = "subject" -> EncodeUtf8(c["subject"])
          [] OTHER -> c[k]]

\* the loop over one page: the campaigns appended, and whether c['subject']
\* raised KeyError on the way
page_loop(blasts) ==
    LET page == reversed(blasts)
        bad == {i \in 1..Len(page) : "subject" \notin DOMAIN page[i]}
        stop == IF bad = {} THEN Len(page) + 1
                ELSE CHOOSE i \in bad : \A j \in bad : i <= j
    IN  [appended |-> [i \in 1..(stop - 1) |-> enriched(page[i])],
         raised |-> bad # {}]

\* one pass through the body of the while loop, the vendor answering the
\* api_get with response
LoopBody(response) ==
    LET page_end == page_end_date(page_start_date, end_date)
        call == [endpoint |-> "blast",
                 params |-> api_params(page_start_date, page_end, list_name),
                 window |-> <<page_start_date, page_end>>,
                 response |-> response]
        error == raise_exception_if_error(response)
        done == page_loop(Get(response.json, "blasts", <<>>))
    IN  /\ calls' = Append(calls, call)
        /\ IF error # NoOutcome
           THEN /\ pc' = "raised"
                /\ exception' = error
                /\ UNCHANGED <<campaigns, page_start_date>>
           ELSE IF done.raised
           THEN /\ pc' = "raised"
                /\ exception' = Raises("KeyError", "'subject'")
                /\ campaigns' = campaigns \o done.appended
                /\ UNCHANGED page_start_date
           ELSE /\ campaigns' = campaigns \o done.appended
                /\ page_start_date' = page_end
                /\ UNCHANGED <<pc, exception>>
        /\ UNCHANGED <<start_date, end_date, list_name, returned,
                       classifierVars, normalizerVars>>

\* the loop condition is false: return campaigns
Return ==
    /\ pc = "loop"
    /\ ~(page_start_date < end_date)
    /\ pc' = "returned"
    /\ returned' = campaigns
    /\ UNCHANGED <<start_date, end_date, list_name, page_start_date,
                   campaigns, calls, exception, classifierVars,
                   normalizerVars>>

-----------------------------------------------------------------------------
(* The vendor's answers to a 'blast' query                                 *)

OkResponse(json) ==
    [is_ok |-> TRUE, error |-> [message |-> "", code |-> 0], json |-> json]

ErrorResponses ==
    {[is_ok |-> FALSE, error |-> e, json |-> <<>>] : e \in ApiErrors}

\* a campaign of the docstring's shape, sent at time t
SentAt(body, t) == body @@ [k \in {"start_time"} |-> t]

FullCampaign ==
    [k \in Fields |->
        CASE k = "labels" -> {"Sponsored"}
          [] k = "name" -> <<"P", "r", "o", "m", "o">>
          [] k = "list" ->
               <<"U", "t", "i", "l", "i", "t", "y", " ", "D", "i", "v", "e",
                 ":", " ", "S", "o", "l", "a", "r", " ", "b", "l", "a", "s",
                 "t", " ", "l", "i", "s", "t">>
          [] k = "subject" ->
               <<"B", "R", "E", "A", "K", "I", "N", "G", ":", " ", "x">>]

\* campaigns with fields missing: only a subject, all but the subject, none
SparseCampaigns ==
    { [k \in {"subject"} |-> <<"U+00E9", "t", "e">>],
      [k \in Fields \ {"subject"} |-> FullCampaign[k]],
      <<>> }

\* every list of at most n campaigns from the set C
ListsUpTo(n, C) == UNION {[1..m -> C] : m \in 0..n}

-----------------------------------------------------------------------------
(* Range query over many date ranges, with pages of at most one campaign   *)

MaxEndDay == 66

RangeInit ==
    /\ start_date \in 0..TicksPerDay
    /\ end_date \in 0..timedelta(MaxEndDay)
    /\ list_name \in {None, <<"F", "o", "o">>}
    /\ page_start_date = start_date
    /\ campaigns = <<>>
    /\ calls = <<>>
    /\ pc = "loop"
    /\ exception = NoOutcome
    /\ returned = <<>>
    /\ ClassifierIdle
    /\ NormalizerIdle

\* bodies of a successful answer for the window from page_start
RangeJsons(page_start) ==
    {<<>>} \cup
    { [k \in {"blasts"} |-> b] :
        b \in ListsUpTo(1, {SentAt(c, page_start) :
                              c \in {FullCampaign} \cup SparseCampaigns}) }

PageOk ==
    /\ pc = "loop"
    /\ page_start_date < end_date
    /\ \E json \in RangeJsons(page_start_date) : LoopBody(OkResponse(json))

PageError ==
    /\ pc = "loop"
    /\ page_start_date < end_date
    /\ \E response \in ErrorResponses : LoopBody(response)

RangeNext == PageOk \/ PageError \/ Return

RangeSpec == RangeInit /\ [][RangeNext]_vars

-----------------------------------------------------------------------------
(* Range query over one, two and three windows, with pages of several      *)
(* campaigns sent at the window's start, at its end, or before it          *)

MaxBlasts == 2

OrderInit ==
    /\ start_date = 0
    /\ end_date \in {timedelta(5), timedelta(35), timedelta(65)}
    /\ list_name = None
    /\ page_start_date = start_date
    /\ campaigns = <<>>
    /\ calls = <<>>
    /\ pc = "loop"
    /\ exception = NoOutcome
    /\ returned = <<>>
    /\ ClassifierIdle
    /\ NormalizerIdle

OrderJsons(page_start, page_end) ==
    { [k \in {"blasts"} |-> b] :
        b \in ListsUpTo(MaxBlasts,
                        {SentAt(FullCampaign, t) :
                           t \in {page_start - 1, page_start, page_end}}) }

PageOfMany ==
    /\ pc = "loop"
    /\ page_start_date < end_date
    /\ \E json \in OrderJsons(page_start_date,
                              page_end_date(page_start_date, end_date)) :
          LoopBody(OkResponse(json))

OrderNext == PageOfMany \/ PageError \/ Return

OrderSpec == OrderInit /\ [][OrderNext]_vars

-----------------------------------------------------------------------------
(* Properties of the range query                                           *)

\* the number of windows a partition of [start_date, end_date) into pages
\* of 30 days has
C1_WindowCount ==
    IF start_date >= end_date THEN 0
    ELSE (end_date - start_date + timedelta(30) - 1) \div timedelta(30)

\* the i-th window of that partition
C1_Window(i) ==
    LET from == start_date + (i - 1) * timedelta(30)
        to == start_date + i * timedelta(30)
    IN  <<from, IF to > end_date THEN end_date ELSE to>>

C1_Length(i) == calls[i].window[2] - calls[i].window[1]

\* C1: the queries made so far are 'blast' queries for the first windows of
\* the partition, one each and in order; the windows are consecutive from
\* start_date, non-empty, at most 30 days long and only the last one, which
\* ends at end_date, may be shorter; when the call returns every window has
\* been queried; 65 days give windows of 30, 30 and 5 days; and a range with
\* start_date >= end_date gives no query, no error and the empty list.
C1_OneQueryPerWindow ==
    /\ Len(calls) <= C1_WindowCount
    /\ \A i \in 1..Len(calls) :
          /\ calls[i].endpoint = "blast"
          /\ calls[i].window = C1_Window(i)
          /\ calls[i].params["status"] = "sent"
          /\ calls[i].params["start_date"] = calls[i].window[1] \div TicksPerDay
          /\ calls[i].params["end_date"] = calls[i].window[2] \div TicksPerDay
          /\ i = 1 => calls[i].window[1] = start_date
          /\ i > 1 => calls[i].window[1] = calls[i - 1].window[2]
          /\ C1_Length(i) > 0
          /\ C1_Length(i) <= timedelta(30)
          /\ C1_Length(i) < timedelta(30) => calls[i].window[2] = end_date
    /\ pc = "returned" =>
          /\ Len(calls) = C1_WindowCount
          /\ calls # <<>> => calls[Len(calls)].window[2] = end_date
          /\ end_date - start_date = timedelta(65) =>
                [i \in 1..Len(calls) |-> C1_Length(i)]
                    = <<timedelta(30), timedelta(30), timedelta(5)>>
    /\ start_date >= end_date =>
          /\ calls = <<>>
          /\ pc # "raised"
          /\ pc = "returned" => returned = <<>>
          /\ pc = "loop" => ENABLED Return

\* a 65-day range that starts in the middle of a day has been queried in
\* three windows and has returned
C1_Witness ==
    /\ pc = "returned"
    /\ start_date = 1
    /\ end_date - start_date = timedelta(65)
    /\ Len(calls) = 3
    /\ calls[3].window = <<start_date + timedelta(60), end_date>>

\* the send times of a list of campaigns
C2_Times(list) == [i \in 1..Len(list) |-> list[i]["start_time"]]

C2_Ascending(times) ==
    \A i \in 1..(Len(times) - 1) : times[i] <= times[i + 1]

C2_Descending(times) ==
    \A i \in 1..(Len(times) - 1) : times[i] >= times[i + 1]

C2_Blasts(i) == Get(calls[i].response.json, "blasts", <<>>)

\* every answer so far lists only campaigns sent inside its window, newest
\* first
C2_VendorAsAssumed ==
    \A i \in 1..Len(calls) :
        /\ C2_Descending(C2_Times(C2_Blasts(i)))
        /\ \A j \in 1..Len(C2_Blasts(i)) :
              /\ calls[i].window[1] <= C2_Blasts(i)[j]["start_time"]
              /\ C2_Blasts(i)[j]["start_time"] <= calls[i].window[2]

\* the answers so far, each reversed on its own, one after the other
RECURSIVE C2_ReversedPages(_)
C2_ReversedPages(n) ==
    IF n = 0 THEN <<>>
    ELSE C2_ReversedPages(n - 1)
           \o [j \in 1..Len(C2_Blasts(n)) |->
                 C2_Blasts(n)[Len(C2_Blasts(n)) + 1 - j]["start_time"]]

\* C2: while no call has failed, the list built is the vendor's pages, each
\* reversed on its own, in window order; and if every page lists only
\* campaigns of its window, newest first, the list built and the list
\* returned are in ascending order of send time.
C2_AscendingOverAllWindows ==
    /\ pc # "raised" =>
          C2_Times(campaigns) = C2_ReversedPages(Len(calls))
    /\ (C2_VendorAsAssumed /\ pc # "raised") =>
          C2_Ascending(C2_Times(campaigns))
    /\ (C2_VendorAsAssumed /\ pc = "returned") =>
          /\ returned = campaigns
          /\ C2_Ascending(C2_Times(returned))

\* three windows, each answered newest first with two campaigns sent at
\* different times, have been returned as six campaigns
C2_Witness ==
    /\ pc = "returned"
    /\ Len(calls) = 3
    /\ C2_VendorAsAssumed
    /\ \A i \in 1..3 :
          /\ Len(C2_Blasts(i)) = 2
          /\ C2_Blasts(i)[1]["start_time"] > C2_Blasts(i)[2]["start_time"]
    /\ Len(returned) = 6

\* C3, the state part: a window answered with an error is the last one
\* queried and was queried once, the call has raised SailthruApiError with
\* the text "message (code)", and nothing is returned.
C3_FailedWindowRaises ==
    \A i \in 1..Len(calls) :
        ~calls[i].response.is_ok =>
            /\ i = Len(calls)
            /\ \A j \in 1..Len(calls) :
                  calls[j].window = calls[i].window => j = i
            /\ pc = "raised"
            /\ exception.status = "SailthruApiError"
            /\ exception.message =
                 calls[i].response.error.message \o " (" \o
                 ToString(calls[i].response.error.code) \o ")"
            /\ (calls[i].response.error.message = "Invalid API key"
                  /\ calls[i].response.error.code = 9)
                 => exception.message = "Invalid API key (9)"
            /\ returned = <<>>

\* C3: the state part always holds, and once the call has raised no further
\* query is made and nothing is returned.
C3_ErrorAbortsWholeQuery ==
    /\ []C3_FailedWindowRaises
    /\ [][pc = "raised" =>
            (pc' = "raised" /\ calls' = calls /\ returned' = returned)]_vars

\* the third window of a range has failed after two windows that gave
\* campaigns
C3_Witness ==
    /\ pc = "raised"
    /\ Len(calls) = 3
    /\ ~calls[3].response.is_ok
    /\ Len(campaigns) = 2
    /\ exception.message = "Invalid API key (9)"

\* C4, as stated: the call raises only for a failed window, and every
\* campaign taken from an answer has dive_email_type set to one of the six
\* tags and dive_brand set.
C4_EnrichmentTotal ==
    /\ pc = "raised" => exception.status = "SailthruApiError"
    /\ \A i \in 1..Len(campaigns) :
          /\ "dive_email_type" \in DOMAIN campaigns[i]
          /\ campaigns[i]["dive_email_type"] \in DiveEmailTypes
          /\ "dive_brand" \in DOMAIN campaigns[i]

-----------------------------------------------------------------------------
(* Properties of the normalizer                                            *)

\* the call returned a merged mapping
Merged == outcome.status = "ok"

R_ == result_json.sub
D_ == defaults.sub
O_ == outcome.json.sub

\* C8, as stated: every key of the defaults that is absent from the raw
\* mapping, or null in it, has the default value in the merged result.
C8_AbsentOrNullGetsDefault ==
    Merged =>
        \A k \in DOMAIN D_ :
            (k \notin DOMAIN R_ \/ R_[k] = NoneValue) => O_[k] = D_[k]

\* C9: for a key whose default is not a mapping, a raw value that is present,
\* falsy and not None is the merged value; an absent key gets the default.
C9_FalsyButPresentPreserved ==
    Merged =>
        \A k \in DOMAIN D_ :
            D_[k].tag # "dict" =>
                /\ (k \in DOMAIN R_ /\ ~Truthy(R_[k]) /\ R_[k] # NoneValue)
                       => O_[k] = R_[k]
                /\ k \notin DOMAIN R_ => O_[k] = D_[k]

\* raw {"count": 0} against default {"count": 5} has given {"count": 0}
C9_Witness ==
    /\ Merged
    /\ result_json = Dict([k \in {"count"} |-> Scalar("0")])
    /\ defaults = Dict([k \in {"count"} |-> Scalar("5")])
    /\ outcome.json = Dict([k \in {"count"} |-> Scalar("0")])

\* the first case of C10: a raw value that is a non-empty mapping is merged
\* recursively with the default mapping
C10_NonEmptyMerged(k) ==
    (k \in DOMAIN R_ /\ R_[k].tag = "dict" /\ Truthy(R_[k]))
        => /\ O_[k].tag = "dict"
           /\ DOMAIN O_[k].sub = DOMAIN R_[k].sub \cup DOMAIN D_[k].sub
           /\ \A j \in DOMAIN O_[k].sub :
                 O_[k].sub[j] =
                    IF j \notin DOMAIN D_[k].sub THEN R_[k].sub[j]
                    ELSE IF j \notin DOMAIN R_[k].sub THEN D_[k].sub[j]
                    ELSE IF D_[k].sub[j].tag # "dict" THEN R_[k].sub[j]
                    ELSE IF ~Truthy(R_[k].sub[j]) THEN D_[k].sub[j]
                    ELSE IF ~Truthy(D_[k].sub[j]) THEN R_[k].sub[j]
                    ELSE O_[k].sub[j]

\* C10, as stated: for a key whose default is a mapping, a non-empty raw
\* mapping is merged recursively, a raw value that is present but empty or
\* falsy is the merged value as it is, and an absent key gets the default.
C10_FalsyRawKeptAsIs ==
    Merged =>
        \A k \in DOMAIN D_ :
            D_[k].tag = "dict" =>
                /\ C10_NonEmptyMerged(k)
                /\ (k \in DOMAIN R_ /\ ~Truthy(R_[k])) => O_[k] = R_[k]
                /\ k \notin DOMAIN R_ => O_[k] = D_[k]

\* C10, amended: for a key whose default is a mapping, a non-empty raw
\* mapping is merged recursively, a raw value that is present but empty or
\* falsy is replaced by the default, and an absent key gets the default.
C10_FalsyRawGetsDefault ==
    Merged =>
        \A k \in DOMAIN D_ :
            D_[k].tag = "dict" =>
                /\ C10_NonEmptyMerged(k)
                /\ (k \in DOMAIN R_ /\ ~Truthy(R_[k])) => O_[k] = D_[k]
                /\ k \notin DOMAIN R_ => O_[k] = D_[k]

\* an empty raw mapping against a non-empty default mapping has given the
\* default, next to a key merged from a non-empty raw mapping
C10_Witness ==
    /\ Merged
    /\ "keys" \in DOMAIN D_ /\ D_["keys"].tag = "dict" /\ Truthy(D_["keys"])
    /\ "keys" \in DOMAIN R_ /\ R_["keys"] = EmptyDict
    /\ O_["keys"] = D_["keys"]
    /\ "vars" \in DOMAIN R_ /\ R_["vars"].tag = "dict" /\ Truthy(R_["vars"])
    /\ O_["vars"] = R_["vars"]

-----------------------------------------------------------------------------
(* Properties of the classifier                                            *)

TypeInferred == dive_email_type # "<unset>"
BrandInferred == dive_brand # Unset

LabelsOf(c) == Get(c, "labels", {})
NameOf(c) == Get(c, "name", <<>>)
ListOf(c) == Get(c, "list", <<>>)
SubjectOf(c) == Get(c, "subject", <<>>)

ListEndsWithBlastList(c) == EndsWith(Lower(ListOf(c)), S_blast_list)

\* C5, as stated: a campaign whose lower-cased list name ends with
\* "blast list" is classified Blast, whatever its labels, name and subject.
C5_BlastListAlwaysBlast ==
    (TypeInferred /\ ListEndsWithBlastList(campaign))
        => dive_email_type = Blast

\* C5, amended: a campaign whose lower-cased list name ends with "blast list",
\* that has neither the label "Welcome Series" nor the label "newsletter" and
\* whose name starts with neither "Newsletter Weekly Roundup" nor "Issue: ",
\* is classified Blast, whatever its subject and its other labels are.
C5_BlastListBlastUnlessEarlierRule ==
    ( /\ TypeInferred
      /\ ListEndsWithBlastList(campaign)
      /\ "Welcome Series" \notin LabelsOf(campaign)
      /\ "newsletter" \notin LabelsOf(campaign)
      /\ ~StartsWith(NameOf(campaign), S_Newsletter_Weekly_Roundup)
      /\ ~StartsWith(NameOf(campaign), S_Issue) )
        => dive_email_type = Blast

\* a fully upper-case "BLAST LIST" name with a BREAKING subject and no label
\* or name that decides the type has been classified Blast
C5_Witness ==
    /\ dive_email_type = Blast
    /\ ListEndsWithBlastList(campaign)
    /\ ~EndsWith(ListOf(campaign), S_blast_list)
    /\ LabelsOf(campaign) = {"Sponsored"}
    /\ ~Contains(NameOf(campaign), S_dash_blast_dash)
    /\ StartsWith(SubjectOf(campaign), S_BREAKING)

\* C6, as stated: for a list name that ends, in any capitalization, with
\* " blast list", the brand is the list name without its last 11 characters.
C6_BrandStripsBlastList ==
    ( /\ BrandInferred
      /\ EndsWith(Lower(ListOf(campaign)), <<" ">> \o S_blast_list) )
        => dive_brand =
             SubSeq(ListOf(campaign), 1, Len(ListOf(campaign)) - 11)

\* The rules of the type inference in their priority order, each with the
\* condition it tests and the tag it gives.
C7_Rules(c) ==
    << [cond |-> "Blast" \in LabelsOf(c), tag |-> Blast],
       [cond |-> Contains(NameOf(c), S_dash_blast_dash), tag |-> Blast],
       [cond |-> "Welcome Series" \in LabelsOf(c), tag |-> WelcomeSeries],
       [cond |-> EndsWith(ListOf(c), S_Weekender), tag |-> Weekender],
       [cond |-> StartsWith(NameOf(c), S_Newsletter_Weekly_Roundup),
        tag |-> Weekender],
       [cond |-> "newsletter" \in LabelsOf(c), tag |-> Newsletter],
       [cond |-> StartsWith(NameOf(c), S_Issue), tag |-> Newsletter],
       [cond |-> ListEndsWithBlastList(c), tag |-> Blast],
       [cond |-> StartsWith(SubjectOf(c), S_BREAKING), tag |-> BreakingNews] >>

\* the tag of the first rule whose condition holds, Unknown when none holds
C7_FirstMatch(c) ==
    LET rules == C7_Rules(c)
        matching == {i \in 1..Len(rules) : rules[i].cond}
    IN  IF matching = {}
        THEN Unknown
        ELSE rules[CHOOSE i \in matching : \A j \in matching : i <= j].tag

\* C7: the inferred type is the tag of the first rule, in priority order,
\* whose condition holds, Unknown when none holds; a campaign with the label
\* "Blast" is always Blast.
C7_FirstMatchWins ==
    TypeInferred =>
        /\ dive_email_type = C7_FirstMatch(campaign)
        /\ "Blast" \in LabelsOf(campaign) => dive_email_type = Blast

\* a campaign that matches rules with four different tags has been
\* classified by the first of them
C7_Witness ==
    /\ dive_email_type = Blast
    /\ {"Blast", "Welcome Series", "newsletter"} \subseteq LabelsOf(campaign)
    /\ EndsWith(ListOf(campaign), S_Weekender)
    /\ StartsWith(SubjectOf(campaign), S_BREAKING)

====
